---- MODULE Spec2Model ----
(***************************************************************************)
(* A model of bauh's abstract package model (bauh/api/abstract/model.py)   *)
(* and of its path constants (bauh/api/paths.py).                          *)
(*                                                                         *)
(* Python strings are TLA+ strings, an f-string or str.format is string    *)
(* concatenation, None is the value None below (it formats as 'None', as   *)
(* in Python).  An object is a record of its attributes (its __dict__)     *)
(* and of its class; a method is an operator from the object to the pair   *)
(* of the value it returns and the object as the method leaves it.         *)
(***************************************************************************)
EXTENDS Integers, Sequences, FiniteSets, TLC

VARIABLES
    env,        \* the process environment paths.py reads
    paths,      \* the namespace of module bauh.api.paths: name -> string
    pc,         \* the line of paths.py that runs next
    pkg,        \* a SoftwarePackage instance, or NoObj before construction
    call,       \* the last operation on pkg and what it returned
    lhs,        \* a CustomSoftwareAction or PackageUpdate instance, or NoObj
    rhs,        \* the object lhs is compared with, or NoObj
    hashseed,   \* the interpreter's string hash seed (PYTHONHASHSEED)
    hist,       \* a PackageHistory instance and the call that made it
    prio,       \* operands of a SuggestionPriority comparison
    cmp         \* the last comparison and what it returned

vars == <<env, paths, pc, pkg, call, lhs, rhs, hashseed, hist, prio, cmp>>

----------------------------------------------------------------------------
(* Bounds of the model. *)

NumUsers == 1       \* non-root accounts u1..
NumStr == 2         \* distinct string values s1.. an attribute may take
NumGems == 2        \* package-manager backends gem1..
MaxOverrides == 1   \* keyword arguments of CustomSoftwareAction given at once
MaxSeed == 1        \* hash seeds 0..MaxSeed
MaxHist == 2        \* longest history list
NumPkgs == 4        \* package identities handed to PackageHistory

----------------------------------------------------------------------------
(* Python values. *)

None == "None"
NoObj == [cls |-> "NoObj"]

Strs == {"s" \o ToString(i) : i \in 1..NumStr}
OptStrs == Strs \cup {None}

StartsWith(s, p) == Len(s) >= Len(p) /\ SubSeq(s, 1, Len(p)) = p

\* bool(s) of a str or None
Truthy(s) == s # None /\ s # ""

----------------------------------------------------------------------------
(* bauh/api/paths.py *)

Users == {"root"} \cup {"u" \o ToString(i) : i \in 1..NumUsers}
Homes == {"/", "/root"} \cup {"/home/u" \o ToString(i) : i \in 1..NumUsers}
AppNames == {"bauh", "bauh-dev"}

\* What the module reads: user.is_root(), Path.home(), getuser(), __app_name__.
Envs == [is_root : BOOLEAN, home : Homes, user : Users, app : AppNames]

\* CACHE_PATH with the branches of the conditional exchanged.
CACHE_PATH_swapped(e) ==
    IF e.is_root THEN e.home \o "/.cache/" \o e.app ELSE "/var/cache/" \o e.app

CACHE_PATH(e) ==
    IF e.is_root THEN "/var/cache/" \o e.app ELSE e.home \o "/.cache/" \o e.app

CONFIG_DIR(e) ==
    IF e.is_root THEN "/etc/" \o e.app ELSE e.home \o "/.config/" \o e.app

USER_THEMES_PATH(e) == e.home \o "/.local/share/bauh/themes"

DESKTOP_ENTRIES_DIR(e) == e.home \o "/.local/share/applications"

TEMP_DIR(e) == "/tmp/" \o e.app \o "@" \o e.user

\* LOGS_DIR reads the TEMP_DIR bound by the line before it.
LOGS_DIR(ns) == ns["TEMP_DIR"] \o "/logs"

AUTOSTART_DIR(e) ==
    IF e.is_root THEN "/etc/xdg/autostart" ELSE e.home \o "/.config/autostart"

FirstLine == 7
LastLine == 13

EmptyNamespace == [n \in {} |-> ""]

Bind(ns, name, val) == (name :> val) @@ ns

\* The assignment on `line` of paths.py, run in namespace ns.
PathsStatement(line, e, ns) ==
    CASE line = 7 -> Bind(ns, "CACHE_PATH", CACHE_PATH(e))
      [] line = 8 -> Bind(ns, "CONFIG_DIR", CONFIG_DIR(e))
      [] line = 9 -> Bind(ns, "USER_THEMES_PATH", USER_THEMES_PATH(e))
      [] line = 10 -> Bind(ns, "DESKTOP_ENTRIES_DIR", DESKTOP_ENTRIES_DIR(e))
      [] line = 11 -> Bind(ns, "TEMP_DIR", TEMP_DIR(e))
      [] line = 12 -> Bind(ns, "LOGS_DIR", LOGS_DIR(ns))
      [] line = 13 -> Bind(ns, "AUTOSTART_DIR", AUTOSTART_DIR(e))

RECURSIVE RunPaths(_, _, _)
RunPaths(line, e, ns) ==
    IF line > LastLine THEN ns
    ELSE RunPaths(line + 1, e, PathsStatement(line, e, ns))

\* The namespace of bauh.api.paths once the module has been imported.
PathsModule(e) == RunPaths(FirstLine, e, EmptyNamespace)

\* The environment of the runs that do not read the path constants.
AnEnv == [is_root |-> FALSE, home |-> "/home/u1", user |-> "u1", app |-> "bauh"]

ImportError == "<ImportError>"

\* from <module> import <name>
ImportFrom(ns, name) == IF name \in DOMAIN ns THEN ns[name] ELSE ImportError

Idle ==
    /\ pkg = NoObj
    /\ call = [m |-> "none"]
    /\ lhs = NoObj
    /\ rhs = NoObj
    /\ hashseed = 0
    /\ hist = [via |-> "none"]
    /\ prio = <<>>
    /\ cmp = [op |-> "none"]

InitPaths ==
    /\ env \in Envs
    /\ paths = EmptyNamespace
    /\ pc = FirstLine
    /\ Idle

ExecPathsLine ==
    /\ pc <= LastLine
    /\ paths' = PathsStatement(pc, env, paths)
    /\ pc' = pc + 1
    /\ UNCHANGED <<env, pkg, call, lhs, rhs, hashseed, hist, prio, cmp>>

NextPaths == ExecPathsLine

SpecPaths == InitPaths /\ [][NextPaths]_vars

----------------------------------------------------------------------------
(* Claims about bauh/api/paths.py, under SpecPaths *)

\* The prefix of every path below the home directory.
HomePrefix(e) == IF e.home = "/" THEN "/" ELSE e.home \o "/"

UnderHome(p, e) == StartsWith(p, HomePrefix(e))

Bound(n) == n \in DOMAIN paths

\* C6 as stated: each of the seven path constants is a system path outside
\* the home directory when the process is root and a path under the home
\* directory otherwise (stated for a home directory other than "/", which
\* contains every path).
C6_EveryConstantSwitches ==
    env.home # "/" =>
        \A n \in DOMAIN paths :
            IF env.is_root THEN ~UnderHome(paths[n], env)
            ELSE UnderHome(paths[n], env)

SystemPaths(e) == {"/var/cache/" \o e.app, "/etc/" \o e.app, "/etc/xdg/autostart"}

\* C6 as amended: CACHE_PATH, CONFIG_DIR and AUTOSTART_DIR are a fixed system
\* path when the process is root and begin with the home directory
\* otherwise; USER_THEMES_PATH and DESKTOP_ENTRIES_DIR begin with the home
\* directory in both cases; TEMP_DIR and LOGS_DIR are /tmp/{app}@{user} and
\* below it in both cases.
C6_SwitchingConstants ==
    /\ \A n \in {"CACHE_PATH", "CONFIG_DIR", "AUTOSTART_DIR"} :
         Bound(n) =>
            IF env.is_root THEN paths[n] \in SystemPaths(env)
            ELSE StartsWith(paths[n], env.home \o "/")
    /\ \A n \in {"USER_THEMES_PATH", "DESKTOP_ENTRIES_DIR"} :
         Bound(n) => StartsWith(paths[n], env.home \o "/")
    /\ Bound("TEMP_DIR") =>
         paths["TEMP_DIR"] = "/tmp/" \o env.app \o "@" \o env.user
    /\ Bound("LOGS_DIR") => StartsWith(paths["LOGS_DIR"], paths["TEMP_DIR"] \o "/")

C6_Witness ==
    /\ pc > LastLine
    /\ env.is_root
    /\ env.home = "/root"
    /\ paths["CACHE_PATH"] = "/var/cache/bauh"
    /\ paths["USER_THEMES_PATH"] = "/root/.local/share/bauh/themes"
    /\ paths["TEMP_DIR"] = "/tmp/bauh@root"

----------------------------------------------------------------------------
(* bauh/api/abstract/model.py: module level *)

\* Line 5: from bauh.api.paths import CACHE_DIR.  The name is looked up in
\* the namespace paths.py built; a name it does not bind raises ImportError.
CACHE_DIR == ImportFrom(paths, "CACHE_DIR")

Raised(v) == v = ImportError

\* What a method hands back: the returned value and the object afterwards.
Ret(v, self) == [ret |-> v, self |-> self]

----------------------------------------------------------------------------
(* class PackageStatus, class SoftwarePackage *)

PackageStatus == {"READY", "LOADING_DATA"}

\* A concrete subclass: the module that defines it and what its get_type()
\* and is_application() return.
Gems == {"gem" \o ToString(i) : i \in 1..NumGems}
Variants ==
    {[module |-> <<"bauh", "gems", g, "model">>, type |-> g, is_app |-> b] :
        g \in Gems, b \in BOOLEAN}
    \cup {[module |-> <<"tests", "fake">>, type |-> "fake", is_app |-> TRUE]}

\* The arguments callers leave alone or fill together.
PassiveArgs ==
    { [id |-> None, version |-> None, description |-> None,
       latest_version |-> None, icon_url |-> None, size |-> None,
       categories |-> None, license |-> None],
      [id |-> "s1", version |-> "1.0", description |-> "s1",
       latest_version |-> "1.1", icon_url |-> "s1", size |-> 1024,
       categories |-> <<"s1">>, license |-> "s1"] }

PkgArgs ==
    { [id |-> p.id, version |-> p.version, name |-> n,
       description |-> p.description, latest_version |-> p.latest_version,
       icon_url |-> p.icon_url, status |-> st, installed |-> i, update |-> u,
       size |-> p.size, categories |-> p.categories, license |-> p.license] :
        p \in PassiveArgs, n \in OptStrs, st \in PackageStatus,
        i \in BOOLEAN, u \in BOOLEAN }

IndexError == [cls |-> "IndexError"]

\* __init__ that drops its status argument.
SoftwarePackage_init_nostatus(args, variant) ==
    IF Len(variant.module) < 3 THEN [cls |-> "IndexError"]
    ELSE [cls |-> "SoftwarePackage", variant |-> variant, id |-> args.id,
          name |-> args.name, description |-> args.description,
          status |-> None, version |-> args.version,
          latest_version |-> args.latest_version, icon_url |-> args.icon_url,
          installed |-> args.installed, update |-> args.update,
          size |-> args.size, categories |-> args.categories,
          license |-> args.license, gem_name |-> variant.module[3]]

\* SoftwarePackage.__init__ as run for an instance of subclass `variant`.
\* self.__module__.split('.')[2] is the third segment of the module name.
SoftwarePackage_init(args, variant) ==
    IF Len(variant.module) < 3 THEN IndexError
    ELSE [cls |-> "SoftwarePackage",
          variant |-> variant,
          id |-> args.id,
          name |-> args.name,
          description |-> args.description,
          status |-> args.status,
          version |-> args.version,
          latest_version |-> args.latest_version,
          icon_url |-> args.icon_url,
          installed |-> args.installed,
          update |-> args.update,
          size |-> args.size,
          categories |-> args.categories,
          license |-> args.license,
          gem_name |-> variant.module[3]]

\* The attributes __init__ sets.
PkgFields ==
    {"id", "name", "description", "status", "version", "latest_version",
     "icon_url", "installed", "update", "size", "categories", "license",
     "gem_name"}

\* Abstract in SoftwarePackage: the subclass answers.
get_type(self) == Ret(self.variant.type, self)

is_application(self) == Ret(self.variant.is_app, self)

can_be_uninstalled(self) == Ret(self.installed, self)

\* can_be_installed without its `not`.
can_be_installed_plain(self) == Ret(self.installed, self)

can_be_installed(self) == Ret(~self.installed, self)

is_update_ignored(self) == Ret(FALSE, self)

supports_ignored_updates(self) == Ret(FALSE, self)

\* supports_disk_cache with `or` for `and`.
supports_disk_cache_or(self) ==
    IF self.installed THEN Ret(self.installed, self)
    ELSE [ret |-> self.variant.is_app, self |-> self]

\* `a and b` evaluates b only when a is true, and is a otherwise.
supports_disk_cache(self) ==
    IF self.installed THEN is_application(self) ELSE Ret(self.installed, self)

get_disk_cache_path(self) ==
    IF Raised(CACHE_DIR) THEN Ret(CACHE_DIR, self)
    ELSE LET t == get_type(self)
         IN  Ret(CACHE_DIR \o "/" \o t.ret, t.self)

\* can_be_updated that consumes the update flag it reports.
can_be_updated_consuming(self) ==
    IF self.installed THEN Ret(self.update, [self EXCEPT !.update = FALSE])
    ELSE Ret(self.installed, self)

can_be_updated(self) ==
    IF self.installed THEN Ret(self.update, self) ELSE Ret(self.installed, self)

get_disk_icon_path(self) ==
    LET path == get_disk_cache_path(self)
    IN  IF Raised(path.ret) THEN path
        ELSE IF Truthy(path.ret) THEN Ret(path.ret \o "/icon.png", path.self)
        ELSE Ret(None, path.self)

get_disk_data_path(self) ==
    LET path == get_disk_cache_path(self)
    IN  IF Raised(path.ret) THEN path
        ELSE IF Truthy(path.ret) THEN Ret(path.ret \o "/data.json", path.self)
        ELSE Ret(None, path.self)

is_trustable(self) == Ret(FALSE, self)

get_custom_actions(self) == Ret(None, self)

has_screenshots(self) == Ret(~self.installed, self)

get_name_tooltip(self) == Ret(self.name, self)

get_display_name(self) == Ret(self.name, self)

get_update_tip(self) == Ret(None, self)

\* The methods SoftwarePackage implements.
Methods ==
    {"can_be_uninstalled", "can_be_installed", "can_be_updated",
     "is_update_ignored", "supports_ignored_updates", "supports_disk_cache",
     "get_disk_cache_path", "get_disk_icon_path", "get_disk_data_path",
     "is_trustable", "get_custom_actions", "has_screenshots",
     "get_name_tooltip", "get_display_name", "get_update_tip"}

Invoke(m, self) ==
    CASE m = "can_be_uninstalled" -> can_be_uninstalled(self)
      [] m = "can_be_installed" -> can_be_installed(self)
      [] m = "can_be_updated" -> can_be_updated(self)
      [] m = "is_update_ignored" -> is_update_ignored(self)
      [] m = "supports_ignored_updates" -> supports_ignored_updates(self)
      [] m = "supports_disk_cache" -> supports_disk_cache(self)
      [] m = "get_disk_cache_path" -> get_disk_cache_path(self)
      [] m = "get_disk_icon_path" -> get_disk_icon_path(self)
      [] m = "get_disk_data_path" -> get_disk_data_path(self)
      [] m = "is_trustable" -> is_trustable(self)
      [] m = "get_custom_actions" -> get_custom_actions(self)
      [] m = "has_screenshots" -> has_screenshots(self)
      [] m = "get_name_tooltip" -> get_name_tooltip(self)
      [] m = "get_display_name" -> get_display_name(self)
      [] m = "get_update_tip" -> get_update_tip(self)

IsPkg(o) == o.cls = "SoftwarePackage"

\* paths.py has been imported; no package exists yet.
InitPkg ==
    /\ env \in Envs
    /\ paths = PathsModule(env)
    /\ pc = LastLine + 1
    /\ Idle

Construct ==
    /\ pkg = NoObj
    /\ \E args \in PkgArgs, v \in Variants :
         /\ pkg' = SoftwarePackage_init(args, v)
         /\ call' = [m |-> "__init__"]
    /\ UNCHANGED <<env, paths, pc, lhs, rhs, hashseed, hist, prio, cmp>>

CallMethod ==
    /\ IsPkg(pkg)
    /\ \E m \in Methods :
         LET r == Invoke(m, pkg)
         IN  /\ pkg' = r.self
             /\ call' = [m |-> m, ret |-> r.ret]
    /\ UNCHANGED <<env, paths, pc, lhs, rhs, hashseed, hist, prio, cmp>>

\* pkg.installed = v, by the code that owns the package.
SetInstalled ==
    /\ IsPkg(pkg)
    /\ \E v \in BOOLEAN :
         /\ pkg' = [pkg EXCEPT !.installed = v]
         /\ call' = [m |-> "installed="]
    /\ UNCHANGED <<env, paths, pc, lhs, rhs, hashseed, hist, prio, cmp>>

\* pkg.update = v, by the code that owns the package.
SetUpdate ==
    /\ IsPkg(pkg)
    /\ \E v \in BOOLEAN :
         /\ pkg' = [pkg EXCEPT !.update = v]
         /\ call' = [m |-> "update="]
    /\ UNCHANGED <<env, paths, pc, lhs, rhs, hashseed, hist, prio, cmp>>

\* The asynchronous fetch of the package's data has completed.
FinishLoading ==
    /\ IsPkg(pkg)
    /\ pkg.status = "LOADING_DATA"
    /\ pkg' = [pkg EXCEPT !.status = "READY"]
    /\ call' = [m |-> "status="]
    /\ UNCHANGED <<env, paths, pc, lhs, rhs, hashseed, hist, prio, cmp>>

NextPkg ==
    \/ Construct
    \/ CallMethod
    \/ SetInstalled
    \/ SetUpdate
    \/ FinishLoading

SpecPkg == InitPkg /\ [][NextPkg]_vars

----------------------------------------------------------------------------
(* Claims about SoftwarePackage, under SpecPkg *)

\* C1: for every package and every value of installed and update,
\* can_be_uninstalled() returns installed, can_be_installed() returns
\* not installed and can_be_updated() returns installed and update.
C1_InstallPredicates ==
    IsPkg(pkg) =>
        /\ can_be_uninstalled(pkg).ret = pkg.installed
        /\ can_be_installed(pkg).ret = ~pkg.installed
        /\ can_be_updated(pkg).ret = (pkg.installed /\ pkg.update)
        /\ call.m = "can_be_uninstalled" => call.ret = pkg.installed
        /\ call.m = "can_be_installed" => call.ret = ~pkg.installed
        /\ call.m = "can_be_updated" => call.ret = (pkg.installed /\ pkg.update)

C1_Witness ==
    /\ IsPkg(pkg)
    /\ call.m = "can_be_updated"
    /\ call.ret = TRUE
    /\ pkg.installed
    /\ pkg.update

\* C7: for a package of type t, get_disk_cache_path() is {cache_root}/{t},
\* get_disk_icon_path() is {cache_root}/{t}/icon.png and get_disk_data_path()
\* is {cache_root}/{t}/data.json, cache_root being the cache directory
\* constant of the paths module, and both file paths begin with what
\* get_disk_cache_path() returns.
C7_DiskCachePaths ==
    IsPkg(pkg) =>
        LET cache_root == paths["CACHE_PATH"]
            t == get_type(pkg).ret
            base == get_disk_cache_path(pkg).ret
        IN  /\ base = cache_root \o "/" \o t
            /\ get_disk_icon_path(pkg).ret = cache_root \o "/" \o t \o "/icon.png"
            /\ get_disk_data_path(pkg).ret = cache_root \o "/" \o t \o "/data.json"
            /\ StartsWith(get_disk_icon_path(pkg).ret, base)
            /\ StartsWith(get_disk_data_path(pkg).ret, base)

C9_PredicatesConsistent ==
    IsPkg(pkg) =>
        /\ can_be_installed(pkg).ret # can_be_uninstalled(pkg).ret
        /\ can_be_updated(pkg).ret => can_be_uninstalled(pkg).ret
        /\ supports_disk_cache(pkg).ret => can_be_uninstalled(pkg).ret
        /\ has_screenshots(pkg).ret = can_be_installed(pkg).ret

C9_Witness ==
    /\ IsPkg(pkg)
    /\ call.m \in {"installed=", "update="}
    /\ pkg.installed
    /\ pkg.update
    /\ supports_disk_cache(pkg).ret
    /\ can_be_updated(pkg).ret
    /\ ~has_screenshots(pkg).ret

\* C10: a call of any method SoftwarePackage implements leaves every field
\* of the package as it was, and a call repeated returns what it returned.
C10_PureQueries ==
    [][call'.m \in Methods =>
        /\ \A f \in PkgFields : pkg'[f] = pkg[f]
        /\ call.m = call'.m => call'.ret = call.ret]_vars

C10_Witness ==
    /\ IsPkg(pkg)
    /\ call.m = "get_display_name"
    /\ call.ret = "s1"
    /\ pkg.name = "s1"
    /\ pkg.installed

----------------------------------------------------------------------------
(* Python's builtin hash() and isinstance() *)

HashMod == 5

StrNum(v) == CHOOSE i \in 1..NumStr : v = "s" \o ToString(i)

\* hash() of a str, of None or of a manager object: fixed for the life of
\* the process, different from one hash seed to the next, not injective.
PyHash(v) ==
    LET ord == IF v = None THEN 0 ELSE IF v = "manager" THEN 1 ELSE 1 + StrNum(v)
    IN  (ord * (2 * hashseed + 3) + hashseed) % HashMod

\* hash() of a bool
PyHashBool(v) == IF v THEN 1 ELSE 0

RECURSIVE SumHash(_, _, _)
\* sum(hash(val) for val in d.values()), over the keys strs and bools of d
SumHash(d, strs, bools) ==
    IF strs # {} THEN
        LET f == CHOOSE k \in strs : TRUE
        IN  PyHash(d[f]) + SumHash(d, strs \ {f}, bools)
    ELSE IF bools # {} THEN
        LET f == CHOOSE k \in bools : TRUE
        IN  PyHashBool(d[f]) + SumHash(d, strs, bools \ {f})
    ELSE 0

isinstance(o, c) == o.cls = c

Seeds == 0..MaxSeed

----------------------------------------------------------------------------
(* class CustomSoftwareAction *)

CsaStrFields ==
    {"i18n_label_key", "i18n_status_key", "icon_path", "manager_method",
     "manager", "i18n_confirm_key", "i18n_description_key"}

CsaBoolFields ==
    {"requires_root", "backup", "refresh", "requires_internet",
     "requires_confirmation"}

CsaFields == CsaStrFields \cup CsaBoolFields

\* The defaults of __init__, with a usual value for each required argument.
CsaUsualArgs ==
    [i18n_label_key |-> "s1", i18n_status_key |-> "s1", icon_path |-> "s1",
     manager_method |-> "s1", requires_root |-> FALSE, manager |-> None,
     backup |-> FALSE, refresh |-> TRUE, i18n_confirm_key |-> None,
     requires_internet |-> FALSE, requires_confirmation |-> TRUE,
     i18n_description_key |-> None]

\* The values an argument is given.
CsaDomain(f) ==
    CASE f \in {"i18n_label_key", "i18n_status_key", "manager_method"} -> Strs
      [] f \in {"icon_path", "i18n_confirm_key", "i18n_description_key"} -> OptStrs
      [] f = "manager" -> {None, "manager"}
      [] f \in CsaBoolFields -> BOOLEAN

RECURSIVE CsaCalls(_)
\* Calls that depart from the usual one in at most n arguments.
CsaCalls(n) ==
    IF n = 0 THEN {CsaUsualArgs}
    ELSE LET fewer == CsaCalls(n - 1)
         IN  fewer \cup UNION {{[a EXCEPT ![f] = v] : v \in CsaDomain(f), a \in fewer} :
                                  f \in CsaFields}

CsaArgs == CsaCalls(MaxOverrides)

CustomSoftwareAction_init(args) ==
    [cls |-> "CustomSoftwareAction",
     dict |-> [i18n_label_key |-> args.i18n_label_key,
               i18n_status_key |-> args.i18n_status_key,
               icon_path |-> args.icon_path,
               manager_method |-> args.manager_method,
               requires_root |-> args.requires_root,
               manager |-> args.manager,
               backup |-> args.backup,
               refresh |-> args.refresh,
               i18n_confirm_key |-> args.i18n_confirm_key,
               requires_internet |-> args.requires_internet,
               requires_confirmation |-> args.requires_confirmation,
               i18n_description_key |-> args.i18n_description_key]]

CustomSoftwareAction_hash(self) == SumHash(self.dict, CsaStrFields, CsaBoolFields)

\* __eq__ that compares what __repr__ shows.
CustomSoftwareAction_eq_repr(self, other) ==
    IF isinstance(other, "CustomSoftwareAction")
    THEN /\ self.dict.i18n_label_key = other.dict.i18n_label_key
         /\ self.dict.manager_method = other.dict.manager_method
    ELSE FALSE

CustomSoftwareAction_eq(self, other) ==
    IF isinstance(other, "CustomSoftwareAction") THEN self.dict = other.dict
    ELSE FALSE

\* An instance of an unrelated class with the same attributes.
Lookalike(o) == [cls |-> "object", dict |-> o.dict]

InitAction ==
    /\ env = AnEnv
    /\ paths = PathsModule(env)
    /\ pc = LastLine + 1
    /\ pkg = NoObj
    /\ call = [m |-> "none"]
    /\ lhs = NoObj
    /\ rhs = NoObj
    /\ hashseed \in Seeds
    /\ hist = [via |-> "none"]
    /\ prio = <<>>
    /\ cmp = [op |-> "none"]

NewAction ==
    /\ lhs = NoObj
    /\ \E args \in CsaArgs : lhs' = CustomSoftwareAction_init(args)
    /\ UNCHANGED <<env, paths, pc, pkg, call, rhs, hashseed, hist, prio, cmp>>

NewOtherAction ==
    /\ rhs = NoObj
    /\ \E args \in CsaArgs : rhs' = CustomSoftwareAction_init(args)
    /\ UNCHANGED <<env, paths, pc, pkg, call, lhs, hashseed, hist, prio, cmp>>

NewActionLookalike ==
    /\ rhs = NoObj
    /\ \E args \in CsaArgs : rhs' = Lookalike(CustomSoftwareAction_init(args))
    /\ UNCHANGED <<env, paths, pc, pkg, call, lhs, hashseed, hist, prio, cmp>>

\* lhs == rhs
EqActions ==
    /\ lhs # NoObj
    /\ rhs # NoObj
    /\ cmp' = [op |-> "eq", ret |-> CustomSoftwareAction_eq(lhs, rhs)]
    /\ UNCHANGED <<env, paths, pc, pkg, call, lhs, rhs, hashseed, hist, prio>>

\* hash(lhs), hash(rhs)
HashActions ==
    /\ lhs # NoObj
    /\ isinstance(rhs, "CustomSoftwareAction")
    /\ cmp' = [op |-> "hash", l |-> CustomSoftwareAction_hash(lhs),
                              r |-> CustomSoftwareAction_hash(rhs)]
    /\ UNCHANGED <<env, paths, pc, pkg, call, lhs, rhs, hashseed, hist, prio>>

NextAction ==
    \/ NewAction
    \/ NewOtherAction
    \/ NewActionLookalike
    \/ EqActions
    \/ HashActions

SpecAction == InitAction /\ [][NextAction]_vars

SameAttributes(o1, o2, fields) == \A f \in fields : o1.dict[f] = o2.dict[f]

\* C2: two CustomSoftwareAction instances with the same value in every field
\* are equal and have the same hash; two that differ in a field are not
\* equal; an action is not equal to an object of another class.
C2_ActionEquality ==
    /\ cmp.op = "eq" =>
         (cmp.ret <=> (rhs.cls = "CustomSoftwareAction"
                       /\ SameAttributes(lhs, rhs, CsaFields)))
    /\ (cmp.op = "hash" /\ SameAttributes(lhs, rhs, CsaFields)) => cmp.l = cmp.r

C2_Witness ==
    /\ cmp.op = "hash"
    /\ SameAttributes(lhs, rhs, CsaFields)
    /\ lhs.dict.manager = "manager"
    /\ cmp.l = cmp.r

----------------------------------------------------------------------------
(* class PackageUpdate *)

PuFields == {"id", "name", "version", "type"}

PackageUpdate_init(pkg_id, version, pkg_type, name) ==
    [cls |-> "PackageUpdate",
     dict |-> [id |-> pkg_id, name |-> name, version |-> version,
               type |-> pkg_type]]

\* __eq__ that compares the package identifier alone.
PackageUpdate_eq_id(self, other) ==
    IF isinstance(other, "PackageUpdate") THEN self.dict.id = other.dict.id
    ELSE FALSE

PackageUpdate_eq(self, other) ==
    IF isinstance(other, "PackageUpdate") THEN self.dict = other.dict
    ELSE FALSE

PackageUpdate_hash(self) == SumHash(self.dict, PuFields, {})

InitUpdate ==
    /\ env = AnEnv
    /\ paths = PathsModule(env)
    /\ pc = LastLine + 1
    /\ pkg = NoObj
    /\ call = [m |-> "none"]
    /\ lhs = NoObj
    /\ rhs = NoObj
    /\ hashseed \in Seeds
    /\ hist = [via |-> "none"]
    /\ prio = <<>>
    /\ cmp = [op |-> "none"]

NewUpdate ==
    /\ lhs = NoObj
    /\ \E i \in Strs, v \in Strs, t \in Strs, n \in Strs :
         lhs' = PackageUpdate_init(i, v, t, n)
    /\ UNCHANGED <<env, paths, pc, pkg, call, rhs, hashseed, hist, prio, cmp>>

NewOtherUpdate ==
    /\ rhs = NoObj
    /\ \E i \in Strs, v \in Strs, t \in Strs, n \in Strs :
         rhs' = PackageUpdate_init(i, v, t, n)
    /\ UNCHANGED <<env, paths, pc, pkg, call, lhs, hashseed, hist, prio, cmp>>

NewUpdateLookalike ==
    /\ rhs = NoObj
    /\ \E i \in Strs, v \in Strs, t \in Strs, n \in Strs :
         rhs' = Lookalike(PackageUpdate_init(i, v, t, n))
    /\ UNCHANGED <<env, paths, pc, pkg, call, lhs, hashseed, hist, prio, cmp>>

\* lhs == rhs
EqUpdates ==
    /\ lhs # NoObj
    /\ rhs # NoObj
    /\ cmp' = [op |-> "eq", ret |-> PackageUpdate_eq(lhs, rhs)]
    /\ UNCHANGED <<env, paths, pc, pkg, call, lhs, rhs, hashseed, hist, prio>>

\* hash(lhs), hash(rhs)
HashUpdates ==
    /\ lhs # NoObj
    /\ isinstance(rhs, "PackageUpdate")
    /\ cmp' = [op |-> "hash", l |-> PackageUpdate_hash(lhs),
                              r |-> PackageUpdate_hash(rhs)]
    /\ UNCHANGED <<env, paths, pc, pkg, call, lhs, rhs, hashseed, hist, prio>>

NextUpdate ==
    \/ NewUpdate
    \/ NewOtherUpdate
    \/ NewUpdateLookalike
    \/ EqUpdates
    \/ HashUpdates

SpecUpdate == InitUpdate /\ [][NextUpdate]_vars

\* C3: two PackageUpdate instances with the same id, name, version and type
\* are equal and have the same hash; two that differ in one of the four are
\* not equal; a PackageUpdate is not equal to an object of another class.
C3_UpdateEquality ==
    /\ cmp.op = "eq" =>
         (cmp.ret <=> (rhs.cls = "PackageUpdate"
                       /\ SameAttributes(lhs, rhs, PuFields)))
    /\ (cmp.op = "hash" /\ SameAttributes(lhs, rhs, PuFields)) => cmp.l = cmp.r

C3_Witness ==
    /\ cmp.op = "eq"
    /\ rhs.cls = "PackageUpdate"
    /\ lhs.dict.id = rhs.dict.id
    /\ lhs.dict.name = rhs.dict.name
    /\ lhs.dict.type = rhs.dict.type
    /\ lhs.dict.version # rhs.dict.version
    /\ cmp.ret = FALSE

----------------------------------------------------------------------------
(* class PackageHistory *)

\* The packages a history is made for, by identity.
PkgRefs == 1..NumPkgs

\* One revision record of a history.
Revisions == {[commit |-> "c1"], [commit |-> "c2"]}

Histories == UNION {[1..n -> Revisions] : n \in 0..MaxHist}

PackageHistory_init(p, history, pkg_status_idx) ==
    [cls |-> "PackageHistory", pkg |-> p, history |-> history,
     pkg_status_idx |-> pkg_status_idx]

\* empyt that marks the first revision as the current one.
empyt_first(p) == PackageHistory_init(p, <<>>, 0)

empyt(p) == PackageHistory_init(p, <<>>, -1)

InitHistory ==
    /\ env = AnEnv
    /\ paths = PathsModule(env)
    /\ pc = LastLine + 1
    /\ Idle

NewHistory ==
    /\ hist.via = "none"
    /\ \E p \in PkgRefs, h \in Histories, i \in -1..MaxHist :
         hist' = [via |-> "__init__", arg |-> p,
                  obj |-> PackageHistory_init(p, h, i)]
    /\ UNCHANGED <<env, paths, pc, pkg, call, lhs, rhs, hashseed, prio, cmp>>

EmptyHistory ==
    /\ hist.via = "none"
    /\ \E p \in PkgRefs : hist' = [via |-> "empyt", arg |-> p, obj |-> empyt(p)]
    /\ UNCHANGED <<env, paths, pc, pkg, call, lhs, rhs, hashseed, prio, cmp>>

NextHistory ==
    \/ NewHistory
    \/ EmptyHistory

SpecHistory == InitHistory /\ [][NextHistory]_vars

\* C5: PackageHistory.empyt(pkg) is a PackageHistory of that package, with
\* an empty history list and pkg_status_idx -1.
C5_EmptyHistory ==
    hist.via = "empyt" =>
        /\ hist.obj.cls = "PackageHistory"
        /\ hist.obj.pkg = hist.arg
        /\ Len(hist.obj.history) = 0
        /\ hist.obj.pkg_status_idx = -1

C5_Witness ==
    /\ hist.via = "empyt"
    /\ hist.arg = NumPkgs
    /\ hist.obj.pkg = NumPkgs

----------------------------------------------------------------------------
(* class SuggestionPriority *)

SuggestionPriority == [LOW |-> 0, MEDIUM |-> 1, HIGH |-> 2, TOP |-> 3]

Member(n) == [cls |-> "SuggestionPriority", name |-> n, value |-> SuggestionPriority[n]]

Levels == {Member(n) : n \in DOMAIN SuggestionPriority}

\* Operands that are no SuggestionPriority: plain ints.
PlainInts == {[cls |-> "int", name |-> "int", value |-> 2]}

Operands == Levels \cup PlainInts

SuggestionPriority_gt(self, other) ==
    IF isinstance(other, "SuggestionPriority") THEN self.value > other.value
    ELSE None

\* __lt__ that also holds of equal values.
SuggestionPriority_lt_le(self, other) ==
    IF isinstance(other, "SuggestionPriority") THEN self.value <= other.value
    ELSE None

SuggestionPriority_lt(self, other) ==
    IF isinstance(other, "SuggestionPriority") THEN self.value < other.value
    ELSE None

InitPriority ==
    /\ env = AnEnv
    /\ paths = PathsModule(env)
    /\ pc = LastLine + 1
    /\ pkg = NoObj
    /\ call = [m |-> "none"]
    /\ lhs = NoObj
    /\ rhs = NoObj
    /\ hashseed = 0
    /\ hist = [via |-> "none"]
    /\ prio \in Operands \X Operands \X Operands
    /\ cmp = [op |-> "none"]

\* prio[i] > prio[j]
CompareGt ==
    /\ \E i \in 1..3, j \in 1..3 :
         /\ isinstance(prio[i], "SuggestionPriority")
         /\ cmp' = [op |-> "gt", l |-> i, r |-> j,
                    ret |-> SuggestionPriority_gt(prio[i], prio[j])]
    /\ UNCHANGED <<env, paths, pc, pkg, call, lhs, rhs, hashseed, hist, prio>>

\* prio[i] < prio[j]
CompareLt ==
    /\ \E i \in 1..3, j \in 1..3 :
         /\ isinstance(prio[i], "SuggestionPriority")
         /\ cmp' = [op |-> "lt", l |-> i, r |-> j,
                    ret |-> SuggestionPriority_lt(prio[i], prio[j])]
    /\ UNCHANGED <<env, paths, pc, pkg, call, lhs, rhs, hashseed, hist, prio>>

NextPriority ==
    \/ CompareGt
    \/ CompareLt

SpecPriority == InitPriority /\ [][NextPriority]_vars

\* The names of the levels from the lowest to the highest.
LevelOrder == <<"LOW", "MEDIUM", "HIGH", "TOP">>

Rank(a) == CHOOSE k \in 1..4 : LevelOrder[k] = a.name

ExactlyOne(p, q, r) == (p /\ ~q /\ ~r) \/ (~p /\ q /\ ~r) \/ (~p /\ ~q /\ r)

\* C4: < and > are a strict total order of the four levels with
\* LOW < MEDIUM < HIGH < TOP: of a < b, a == b and a > b exactly one holds,
\* a < b exactly when b > a, and a < b and b < c give a < c.
C4_PriorityOrder ==
    LET a == prio[1]
        b == prio[2]
        c == prio[3]
    IN  /\ (a \in Levels /\ b \in Levels) =>
            /\ ExactlyOne(SuggestionPriority_lt(a, b), a = b,
                          SuggestionPriority_gt(a, b))
            /\ SuggestionPriority_lt(a, b) <=> SuggestionPriority_gt(b, a)
            /\ SuggestionPriority_lt(a, b) <=> Rank(a) < Rank(b)
        /\ (a \in Levels /\ b \in Levels /\ c \in Levels) =>
            ((SuggestionPriority_lt(a, b) /\ SuggestionPriority_lt(b, c))
                => SuggestionPriority_lt(a, c))
        /\ (cmp.op = "gt" /\ prio[cmp.r] \in Levels) =>
            (cmp.ret <=> Rank(prio[cmp.l]) > Rank(prio[cmp.r]))
        /\ (cmp.op = "lt" /\ prio[cmp.r] \in Levels) =>
            (cmp.ret <=> Rank(prio[cmp.l]) < Rank(prio[cmp.r]))

C4_Witness ==
    /\ cmp.op = "gt"
    /\ prio[cmp.l].name = "TOP"
    /\ prio[cmp.r].name = "LOW"
    /\ cmp.ret = TRUE
    /\ prio[3].name = "HIGH"

====
